---- MODULE Spec2Model ----
(***************************************************************************)
(* A model of packages/appium/lib/utils.js: capability negotiation          *)
(* (parseCapsForInnerDriver), the appium: prefix codec, pullSettings and    *)
(* the driver/plugin argument parsers.                                      *)
(*                                                                          *)
(* JavaScript objects live in a heap of addressed cells so that aliasing    *)
(* and in-place mutation are visible: a value is a primitive or a           *)
(* reference, an object is an insertion-ordered list of key/value pairs,    *)
(* an array a list of values.  Strings are TLA+ strings, taken apart with   *)
(* Len and SubSeq.                                                          *)
(***************************************************************************)
EXTENDS Integers, Sequences, FiniteSets, TLC

VARIABLES
  pc,                   \* "idle", "defaults" (inside the loop of line 121), "finish", "done"
  fn,                   \* the exported function being run
  heap,                 \* the object heap: address -> cell
  heap0,                \* the heap as the caller built it, before the call
  args,                 \* the caller's arguments (values; references into heap)
  ret,                  \* how the call ended: returned value or thrown error
  jsonwpCapabilities,   \* parseCapsForInnerDriver's locals after line 117
  w3cCapabilities,
  defaultCapabilities,
  pairs,                \* the part of _.toPairs(defaultCapabilities) not yet iterated
  engine                \* the calls made to processCapabilities, in order

vars == <<pc, fn, heap, heap0, args, ret, jsonwpCapabilities, w3cCapabilities,
          defaultCapabilities, pairs, engine>>

-----------------------------------------------------------------------------
(* Bounds of the model *)

MaxFirstMatch == 2      \* longest firstMatch array of a payload
MaxDefaults == 2        \* most keys of a defaultCapabilities object
MaxArgs == 2            \* most keys of a driverPluginArgs object
MaxSettings == 2        \* most keys of a capabilities object given to pullSettings

-----------------------------------------------------------------------------
(* JavaScript values *)

Null == [t |-> "null"]
Undefined == [t |-> "undefined"]
Str(s) == [t |-> "str", s |-> s]
Num(n) == [t |-> "num", n |-> n]
Ref(a) == [t |-> "ref", a |-> a]

P(k, v) == [k |-> k, v |-> v]

\* A heap-free (structural) object or array: what a caller writes as a literal.
Obj(items) == [t |-> "obj", kind |-> "object", items |-> items]
Arr(items) == [t |-> "obj", kind |-> "array", items |-> items]

Cell(kind, items) == [kind |-> kind, items |-> items]

\* Builds the structural value d in the heap; yields the new heap and the value.
RECURSIVE Alloc(_, _)
RECURSIVE AllocItems(_, _, _)
AllocItems(h, kind, items) ==
  IF items = <<>> THEN [h |-> h, items |-> <<>>]
  ELSE LET first == Head(items)
           c == Alloc(h, IF kind = "object" THEN first.v ELSE first)
           rest == AllocItems(c.h, kind, Tail(items))
       IN [h |-> rest.h,
           items |-> <<IF kind = "object" THEN P(first.k, c.v) ELSE c.v>> \o rest.items]

Alloc(h, d) ==
  IF d.t # "obj" THEN [h |-> h, v |-> d]
  ELSE LET r == AllocItems(h, d.kind, d.items)
       IN [h |-> Append(r.h, Cell(d.kind, r.items)), v |-> Ref(Len(r.h) + 1)]

\* The structure reachable from value v in heap h.
RECURSIVE Deep(_, _)
Deep(h, v) ==
  IF v.t # "ref" THEN v
  ELSE LET c == h[v.a]
       IN [t |-> "obj", kind |-> c.kind,
           items |-> [i \in 1..Len(c.items) |->
                        IF c.kind = "object"
                        THEN P(c.items[i].k, Deep(h, c.items[i].v))
                        ELSE Deep(h, c.items[i])]]

\* A copy that shares the argument (the bug _.cloneDeep is there to prevent).
cloneDeepAliased(h, v) == [h |-> h, v |-> v]

\* _.cloneDeep: a structural copy in fresh cells.
cloneDeep(h, v) == Alloc(h, Deep(h, v))

isPlainObject(h, v) == v.t = "ref" /\ h[v.a].kind = "object"
isArray(h, v) == v.t = "ref" /\ h[v.a].kind = "array"
isString(v) == v.t = "str"

\* _.isEmpty: objects, arrays and strings by size; every other value is empty.
isEmpty(h, v) ==
  CASE v.t = "ref" -> h[v.a].items = <<>>
    [] v.t = "str" -> v.s = ""
    [] OTHER -> TRUE

\* Truthiness, as `x || y` tests it.
Truthy(v) ==
  CASE v.t \in {"null", "undefined"} -> FALSE
    [] v.t = "str" -> v.s # ""
    [] v.t = "num" -> v.n # 0
    [] OTHER -> TRUE

(* Own properties of an object: an insertion-ordered list of pairs *)

HasKey(props, k) == \E i \in 1..Len(props) : props[i].k = k

GetProp(props, k) ==
  IF HasKey(props, k)
  THEN props[CHOOSE i \in 1..Len(props) : props[i].k = k].v
  ELSE Undefined

SetProp(props, k, v) ==
  IF HasKey(props, k)
  THEN [i \in 1..Len(props) |-> IF props[i].k = k THEN P(k, v) ELSE props[i]]
  ELSE Append(props, P(k, v))

DeleteProp(props, k) == SelectSeq(props, LAMBDA p : p.k # k)

\* Object.assign / _.assign of one source's pairs onto props.
RECURSIVE AssignProps(_, _)
AssignProps(props, src) ==
  IF src = <<>> THEN props
  ELSE AssignProps(SetProp(props, Head(src).k, Head(src).v), Tail(src))

\* _.toPairs / Object.keys of an object value
toPairs(h, v) == IF v.t = "ref" /\ h[v.a].kind = "object" THEN h[v.a].items ELSE <<>>
ObjectKeys(h, v) == {toPairs(h, v)[i].k : i \in 1..Len(toPairs(h, v))}

\* _.has(obj, key) on a structural object's own properties
has(props, k) == HasKey(props, k)

WriteCell(h, a, items) == [h EXCEPT ![a] = Cell(h[a].kind, items)]

(* Strings *)

CharAt(s, i) == SubSeq(s, i, i)
startsWith(s, prefix) == Len(s) >= Len(prefix) /\ SubSeq(s, 1, Len(prefix)) = prefix
includes(s, ch) == \E i \in 1..Len(s) : CharAt(s, i) = ch

Returned(v) == [kind |-> "return", v |-> v]
Thrown(e) == [kind |-> "throw", error |-> e]
NoResult == [kind |-> "none"]

\* Sequences of at most n members of pool, no key twice: the objects a caller can write.
OrderedDicts(pool, n) ==
  {s \in UNION {[1..m -> pool] : m \in 0..n} :
     \A i, j \in 1..Len(s) : i # j => s[i].k # s[j].k}

-----------------------------------------------------------------------------
(* The appium: prefix codec *)

W3C_APPIUM_PREFIX == "appium"

STANDARD_CAPS ==
  {"browserName", "browserVersion", "platformName", "acceptInsecureCerts",
   "pageLoadStrategy", "proxy", "setWindowRect", "timeouts", "unhandledPromptBehavior"}

removeAppiumPrefix(key) ==
  LET prefix == W3C_APPIUM_PREFIX \o ":"
  IN IF startsWith(key, prefix) THEN SubSeq(key, Len(prefix) + 1, Len(key)) ELSE key

\* fixedCaps[removeAppiumPrefix(name)] = value, pair by pair
RECURSIVE fixedCaps(_, _)
fixedCaps(acc, props) ==
  IF props = <<>> THEN acc
  ELSE fixedCaps(SetProp(acc, removeAppiumPrefix(Head(props).k), Head(props).v), Tail(props))

\* The result is a temporary that never escapes its caller: it is kept out of the
\* heap, as a structural object whose values are those of caps (a shallow copy).
removeAppiumPrefixes(h, caps) ==
  IF ~isPlainObject(h, caps) THEN caps
  ELSE Obj(fixedCaps(<<>>, toPairs(h, caps)))

\* A codec that prefixes the standard names too.
insertAppiumPrefixesAll(props) ==
  [i \in 1..Len(props) |->
     P(IF includes(props[i].k, ":") THEN props[i].k
       ELSE W3C_APPIUM_PREFIX \o ":" \o props[i].k, props[i].v)]

RECURSIVE prefixedCaps(_, _)
prefixedCaps(acc, props) ==
  IF props = <<>> THEN acc
  ELSE LET name == Head(props).k
           value == Head(props).v
       IN prefixedCaps(
            IF name \in STANDARD_CAPS \/ includes(name, ":")
            THEN SetProp(acc, name, value)
            ELSE SetProp(acc, W3C_APPIUM_PREFIX \o ":" \o name, value),
            Tail(props))

insertAppiumPrefixes(props) == prefixedCaps(<<>>, props)

-----------------------------------------------------------------------------
(* pullSettings *)

WordChars ==
  {"a", "b", "c", "d", "e", "f", "g", "h", "i", "j", "k", "l", "m", "n", "o", "p", "q",
   "r", "s", "t", "u", "v", "w", "x", "y", "z",
   "A", "B", "C", "D", "E", "F", "G", "H", "I", "J", "K", "L", "M", "N", "O", "P", "Q",
   "R", "S", "T", "U", "V", "W", "X", "Y", "Z",
   "0", "1", "2", "3", "4", "5", "6", "7", "8", "9", "_"}

SpaceChars == {" ", "\t", "\n", "\r", "\f"}

SettingsLiteral == "settings["

\* An attempt of the pattern without its \b assertion.
MatchAtNoBoundary(key, i) ==
  LET n == Len(key)
      g == i + Len(SettingsLiteral)
  IN /\ g <= n - 1
     /\ SubSeq(key, i, g - 1) = SettingsLiteral
     /\ CharAt(key, n) = "]"
     /\ \A j \in g..(n - 1) : CharAt(key, j) \notin SpaceChars

\* An attempt of /\bsettings\[(\S+)\]$/ at position i of key: the literal, then the
\* group and the closing bracket that ends the key, so the group is what lies between.
MatchAt(key, i) ==
  LET n == Len(key)
      g == i + Len(SettingsLiteral)
  IN /\ g <= n - 1
     /\ SubSeq(key, i, g - 1) = SettingsLiteral
     /\ (i = 1 \/ CharAt(key, i - 1) \notin WordChars)
     /\ CharAt(key, n) = "]"
     /\ \A j \in g..(n - 1) : CharAt(key, j) \notin SpaceChars

\* RegExp.prototype.exec: the leftmost position that matches, or no match.
exec(key) ==
  LET starts == {i \in 1..Len(key) : MatchAt(key, i)}
  IN IF starts = {} THEN [matched |-> FALSE]
     ELSE LET i == CHOOSE x \in starts : \A y \in starts : x <= y
          IN [matched |-> TRUE,
              group |-> SubSeq(key, i + Len(SettingsLiteral), Len(key) - 1)]

\* One iteration of the loop of lines 257-265 on st = [result, caps].
pullSettingsStep(st, key, value) ==
  LET match == exec(key)
  IN IF ~match.matched THEN st
     ELSE [result |-> SetProp(st.result, match.group, value),
           caps |-> DeleteProp(st.caps, key)]

RECURSIVE pullSettingsLoop(_, _)
pullSettingsLoop(st, ps) ==
  IF ps = <<>> THEN st
  ELSE pullSettingsLoop(pullSettingsStep(st, Head(ps).k, Head(ps).v), Tail(ps))

\* Yields the heap after the call and the returned value.
pullSettings(h, caps) ==
  IF ~isPlainObject(h, caps) \/ isEmpty(h, caps)
  THEN LET r == Alloc(h, Obj(<<>>)) IN [h |-> r.h, ret |-> Returned(r.v)]
  ELSE LET st == pullSettingsLoop([result |-> <<>>, caps |-> toPairs(h, caps)],
                                  toPairs(h, caps))
           h1 == WriteCell(h, caps.a, st.caps)
       IN [h |-> Append(h1, Cell("object", st.result)),
           ret |-> Returned(Ref(Len(h1) + 1))]

-----------------------------------------------------------------------------
(* Driver and plugin arguments *)

\* The texts given as --driver-args / --plugin-args in the model.
Blobs ==
  {"{}",
   "{\"fake\":{\"sillyWebServerPort\":1234}}",
   "{\"fake\":\"1234\"}",
   "{\"other\":{\"host\":\"hey\"}}",
   "{\"fake\":null,\"other\":{}}",
   "{fake"}

\* ./cli/parser-helpers parseJsonStringOrFile, on the texts above: the parsed
\* mapping, or a failure for a text that is no JSON.
parseJsonStringOrFile(text) ==
  CASE text = "{}" -> [ok |-> TRUE, d |-> Obj(<<>>)]
    [] text = "{\"fake\":{\"sillyWebServerPort\":1234}}" ->
         [ok |-> TRUE, d |-> Obj(<<P("fake", Obj(<<P("sillyWebServerPort", Num(1234))>>))>>)]
    [] text = "{\"fake\":\"1234\"}" ->
         [ok |-> TRUE, d |-> Obj(<<P("fake", Str("1234"))>>)]
    [] text = "{\"other\":{\"host\":\"hey\"}}" ->
         [ok |-> TRUE, d |-> Obj(<<P("other", Obj(<<P("host", Str("hey"))>>))>>)]
    [] text = "{\"fake\":null,\"other\":{}}" ->
         [ok |-> TRUE, d |-> Obj(<<P("fake", Null), P("other", Obj(<<>>))>>)]
    [] OTHER -> [ok |-> FALSE]

\* Yields the heap after the call and how the call ended.
parseExtensionArgs(h, extensionArgs, extensionName) ==
  IF ~isString(extensionArgs)
  THEN LET r == Alloc(h, Obj(<<>>)) IN [h |-> r.h, ret |-> Returned(r.v)]
  ELSE LET parsed == parseJsonStringOrFile(extensionArgs.s)
       IN IF ~parsed.ok THEN [h |-> h, ret |-> Thrown("SyntaxError")]
          ELSE LET parsedExtensionArgs == Alloc(h, parsed.d)
                   extensionSpecificArgs ==
                     GetProp(toPairs(parsedExtensionArgs.h, parsedExtensionArgs.v),
                             extensionName)
               IN IF ~isPlainObject(parsedExtensionArgs.h, extensionSpecificArgs)
                  THEN [h |-> parsedExtensionArgs.h,
                        ret |-> Thrown("Driver or plugin arguments must be plain objects")]
                  ELSE [h |-> parsedExtensionArgs.h, ret |-> Returned(extensionSpecificArgs)]

\* A reducer that drops an unknown argument instead of throwing.
parseKnownArgsStepLenient(acc, knownArgNames, argName, argValue) ==
  IF ~acc.ok THEN acc
  ELSE IF argName \in knownArgNames
       THEN [ok |-> TRUE, args |-> SetProp(acc.args, argName, argValue)]
       ELSE acc

\* The reducer of lines 52-61; once it has thrown, the reduction is over.
parseKnownArgsStep(acc, knownArgNames, argName, argValue) ==
  IF ~acc.ok THEN acc
  ELSE IF argName \in knownArgNames
       THEN [ok |-> TRUE, args |-> SetProp(acc.args, argName, argValue)]
       ELSE [ok |-> FALSE, error |-> "is not a recognized key", argName |-> argName]

RECURSIVE parseKnownArgsReduce(_, _, _)
parseKnownArgsReduce(acc, knownArgNames, ps) ==
  IF ps = <<>> THEN acc
  ELSE parseKnownArgsReduce(
         parseKnownArgsStep(acc, knownArgNames, Head(ps).k, Head(ps).v),
         knownArgNames, Tail(ps))

\* Yields [ok, args] (the pairs of the object returned) or [ok = FALSE, error].
parseKnownArgs(h, driverPluginArgs, argsConstraints) ==
  LET knownArgNames == ObjectKeys(h, argsConstraints)
  IN parseKnownArgsReduce([ok |-> TRUE, args |-> <<>>], knownArgNames,
                          toPairs(h, driverPluginArgs))

\* What @appium/base-driver's validateCaps can do with arguments it is handed.
ValidateOutcomes == {"valid", "invalid"}

\* @appium/base-driver validateCaps: hands the arguments back, or throws.
validateCaps(parsedArgs, outcome) ==
  IF outcome = "valid" THEN [ok |-> TRUE, args |-> parsedArgs]
  ELSE [ok |-> FALSE, error |-> "ValidationError"]

\* Yields the heap after the call and how the call ended.
parseDriverPluginArgs(h, a, driverPluginArgs, argsConstraints, outcome) ==
  IF isEmpty(h, driverPluginArgs) \/ isEmpty(h, argsConstraints)
  THEN [h |-> h, ret |-> Returned(a)]
  ELSE LET known == parseKnownArgs(h, driverPluginArgs, argsConstraints)
       IN IF ~known.ok THEN [h |-> h, ret |-> Thrown(known.error)]
          ELSE LET parsedArgs == validateCaps(known.args, outcome)
               IN IF ~parsedArgs.ok THEN [h |-> h, ret |-> Thrown(parsedArgs.error)]
                  ELSE [h |-> WriteCell(h, a.a, AssignProps(toPairs(h, a), parsedArgs.args)),
                        ret |-> Returned(a)]

-----------------------------------------------------------------------------
(* parseCapsForInnerDriver *)

PROTOCOLS_W3C == Str("W3C")
Error(message) == [t |-> "error", message |-> message]

\* A test that takes any plain object for a W3C payload.
hasW3CCapsAnyObject(h, w3c) == isPlainObject(h, w3c)

\* Lines 97-98.
hasW3CCaps(h, w3c) ==
  /\ isPlainObject(h, w3c)
  /\ (has(toPairs(h, w3c), "alwaysMatch") \/ has(toPairs(h, w3c), "firstMatch"))

\* Line 99.
hasJSONWPCaps(h, jsonwp) == isPlainObject(h, jsonwp)

\* The return of lines 105-108.
missingW3CResult == Obj(<<P("protocol", PROTOCOLS_W3C),
                          P("error", Error("W3C capabilities should be provided"))>>)

\* What `for (const x of v || [])` iterates: an array's elements, or a failure for a
\* truthy value that is not iterable (a number, a plain object).
Iterate(h, v) ==
  CASE ~Truthy(v) -> [ok |-> TRUE, items |-> <<>>]
    [] isArray(h, v) -> [ok |-> TRUE, items |-> h[v.a].items]
    [] v.t = "str" -> [ok |-> TRUE, items |-> [i \in 1..Len(v.s) |-> Str(CharAt(v.s, i))]]
    [] OTHER -> [ok |-> FALSE]

\* _.has(removeAppiumPrefixes(entry), removeAppiumPrefix(defaultCapKey)), for a plain object
HasEquivalentKey(h, entry, defaultCapKey) ==
  /\ isPlainObject(h, entry)
  /\ has(removeAppiumPrefixes(h, entry).items, removeAppiumPrefix(defaultCapKey))

\* A check that looks at the first firstMatch entry only.
isCapAlreadySetFirstOnly(h, w3c, defaultCapKey) ==
  LET firstMatch == Iterate(h, GetProp(toPairs(h, w3c), "firstMatch")).items
  IN \/ (firstMatch # <<>> /\ HasEquivalentKey(h, firstMatch[1], defaultCapKey))
     \/ HasEquivalentKey(h, GetProp(toPairs(h, w3c), "alwaysMatch"), defaultCapKey)

\* Lines 122-133, for an iterable firstMatch: every firstMatch entry is looked at,
\* then alwaysMatch.
isCapAlreadySet(h, w3c, defaultCapKey) ==
  LET firstMatch == Iterate(h, GetProp(toPairs(h, w3c), "firstMatch")).items
  IN \/ \E i \in 1..Len(firstMatch) : HasEquivalentKey(h, firstMatch[i], defaultCapKey)
     \/ HasEquivalentKey(h, GetProp(toPairs(h, w3c), "alwaysMatch"), defaultCapKey)

\* Lines 140-144: yields the heap after the write, or a TypeError when firstMatch[0]
\* is null, undefined or a primitive (module code is strict).
injectDefault(h, w3c, defaultCapKey, defaultCapValue) ==
  LET firstMatch == GetProp(toPairs(h, w3c), "firstMatch")
  IN IF isEmpty(h, firstMatch)
     THEN LET r == Alloc(h, Arr(<<Obj(<<>>)>>))
              entry == r.h[r.v.a].items[1]
              h1 == WriteCell(r.h, entry.a, <<P(defaultCapKey, defaultCapValue)>>)
          IN [ok |-> TRUE,
              h |-> WriteCell(h1, w3c.a, SetProp(toPairs(h1, w3c), "firstMatch", r.v))]
     ELSE LET first == IF firstMatch.t = "ref" THEN h[firstMatch.a].items[1]
                       ELSE Str(CharAt(firstMatch.s, 1))
          IN IF first.t # "ref" THEN [ok |-> FALSE]
             ELSE [ok |-> TRUE,
                   h |-> WriteCell(h, first.a,
                                   SetProp(h[first.a].items, defaultCapKey, defaultCapValue))]

\* One iteration of the loop of lines 121-145.
defaultCapIteration(h, w3c, defaultCapKey, defaultCapValue) ==
  IF ~Iterate(h, GetProp(toPairs(h, w3c), "firstMatch")).ok THEN [ok |-> FALSE]
  ELSE IF isCapAlreadySet(h, w3c, defaultCapKey) THEN [ok |-> TRUE, h |-> h]
       ELSE injectDefault(h, w3c, defaultCapKey, defaultCapValue)

\* Lines 147-149 and 153-155: yields the heap and processedJsonwpCapabilities.
processJsonwp(h, jsonwp, defaults, hasJsonwp) ==
  IF ~hasJsonwp THEN [h |-> h, v |-> Null]
  ELSE LET merged == IF ~isEmpty(h, defaults)
                     THEN AssignProps(AssignProps(<<>>, removeAppiumPrefixes(h, defaults).items),
                                      toPairs(h, jsonwp))
                     ELSE toPairs(h, jsonwp)
       IN [h |-> Append(h, Cell("object", merged)), v |-> Ref(Len(h) + 1)]

\* What @appium/base-driver's processCapabilities can answer: a rejection, or a flat
\* mapping of matched capabilities.
EngineOutcomes ==
  {[ok |-> FALSE, error |-> Error("could not match")],
   [ok |-> TRUE, caps |-> Obj(<<P("platformName", Str("Android")),
                                P("deviceName", Str("emu"))>>)],
   [ok |-> TRUE, caps |-> Obj(<<P("deviceName", Str("real")),
                                P("moz:debuggerAddress", Str("yes"))>>)]}

\* A failure return that drops the legacy capabilities.
matchFailureResultNoJsonwp(desiredCaps, processedJsonwp, processedW3C, error) ==
  Obj(<<P("desiredCaps", desiredCaps), P("processedJsonwpCapabilities", Null),
        P("processedW3CCapabilities", processedW3C), P("protocol", PROTOCOLS_W3C),
        P("error", error)>>)

\* The return of lines 165-171.
matchFailureResult(desiredCaps, processedJsonwp, processedW3C, error) ==
  Obj(<<P("desiredCaps", desiredCaps), P("processedJsonwpCapabilities", processedJsonwp),
        P("processedW3CCapabilities", processedW3C), P("protocol", PROTOCOLS_W3C),
        P("error", error)>>)

\* Lines 158-181 for an answer of the engine: yields the heap and the returned object.
matchAndReturn(h, processedJsonwp, outcome) ==
  IF ~outcome.ok
  THEN LET desiredCaps == Alloc(h, Obj(<<>>))
           r == Alloc(desiredCaps.h,
                      matchFailureResult(desiredCaps.v, processedJsonwp, Null, outcome.error))
       IN [h |-> r.h, v |-> r.v]
  ELSE LET desiredCaps == Alloc(h, outcome.caps)
           alwaysMatch == Alloc(desiredCaps.h,
                                Obj(insertAppiumPrefixes(toPairs(desiredCaps.h, desiredCaps.v))))
           firstMatch == Alloc(alwaysMatch.h, Arr(<<Obj(<<>>)>>))
           processedW3C == Alloc(firstMatch.h,
                                 Obj(<<P("alwaysMatch", alwaysMatch.v),
                                       P("firstMatch", firstMatch.v)>>))
           r == Alloc(processedW3C.h,
                      Obj(<<P("desiredCaps", desiredCaps.v),
                            P("processedJsonwpCapabilities", processedJsonwp),
                            P("processedW3CCapabilities", processedW3C.v),
                            P("protocol", PROTOCOLS_W3C)>>))
       IN [h |-> r.h, v |-> r.v]

-----------------------------------------------------------------------------
(* The arguments callers pass in the model *)

CapDicts ==
  {Obj(<<>>),
   Obj(<<P("platformName", Str("iOS"))>>),
   Obj(<<P("appium:deviceName", Str("real"))>>),
   Obj(<<P("deviceName", Str("real"))>>)}

\* firstMatch entries: capability dictionaries, or null
FirstMatchEntries == {Obj(<<>>), Obj(<<P("appium:deviceName", Str("real"))>>), Null}

\* firstMatch values: arrays of entries, or a number (not a sequence)
FirstMatchValues ==
  {Arr(es) : es \in UNION {[1..m -> FirstMatchEntries] : m \in 0..MaxFirstMatch}}
    \cup {Num(7)}

AlwaysMatchValues == CapDicts \cup {Null}

W3CInputs ==
  {Null, Arr(<<>>), Obj(<<>>), Obj(<<P("capabilities", Obj(<<>>))>>)}
    \cup {Obj(<<P("alwaysMatch", am)>>) : am \in AlwaysMatchValues}
    \cup {Obj(<<P("firstMatch", fm)>>) : fm \in FirstMatchValues}
    \cup {Obj(<<P("alwaysMatch", am), P("firstMatch", fm)>>) :
            am \in AlwaysMatchValues, fm \in FirstMatchValues}

JsonwpInputs == {Null, Obj(<<P("deviceName", Str("legacy"))>>)}

DefaultPairs ==
  {P("platformName", Str("Android")), P("deviceName", Str("emu")),
   P("appium:deviceName", Str("emu"))}

DefaultInputs == {Obj(d) : d \in OrderedDicts(DefaultPairs, MaxDefaults)}

ConstraintInputs == {Obj(<<>>), Obj(<<P("platformName", Obj(<<P("presence", Str("true"))>>))>>)}

ArgPairs == {P("foo", Num(1)), P("bar", Num(2)), P("baz", Str("x"))}
ArgInputs == {Obj(d) : d \in OrderedDicts(ArgPairs, MaxArgs)}
ArgConstraintInputs ==
  {Obj(<<>>), Obj(<<P("bar", Obj(<<>>))>>),
   Obj(<<P("foo", Obj(<<>>)), P("bar", Obj(<<>>))>>)}
BaseArgInputs == {Obj(<<>>), Obj(<<P("port", Num(4723))>>), Obj(<<P("bar", Num(9))>>)}

ExtensionArgInputs == {Null, Undefined} \cup {Str(b) : b \in Blobs}
ExtensionNames == {"fake", "other"}

SettingsPairs ==
  {P("a", Num(1)), P("settings[timeout]", Num(30)), P("appium:settings[timeout]", Str("31")),
   P("mysettings[timeout]", Num(32)), P("settings[a b]", Num(33)), P("settings[]", Num(34)),
   P("settings[x]y", Num(35)), P("settings[x]]", Num(36))}
SettingsInputs ==
  {Null} \cup {Obj(d) : d \in OrderedDicts(SettingsPairs, MaxSettings)}

-----------------------------------------------------------------------------
(* The state machine: a caller builds its arguments and calls one function *)

Init ==
  /\ pc = "idle"
  /\ fn = "none"
  /\ heap = <<>>
  /\ heap0 = <<>>
  /\ args = <<>>
  /\ ret = NoResult
  /\ jsonwpCapabilities = Undefined
  /\ w3cCapabilities = Undefined
  /\ defaultCapabilities = Undefined
  /\ pairs = <<>>
  /\ engine = <<>>

\* A call that runs in one step: the heap the caller built, then the call's effect.
Atomic(name, a, h0, r) ==
  /\ pc' = "done"
  /\ fn' = name
  /\ args' = a
  /\ heap0' = h0
  /\ heap' = r.h
  /\ ret' = r.ret
  /\ UNCHANGED <<jsonwpCapabilities, w3cCapabilities, defaultCapabilities, pairs, engine>>

CallParseExtensionArgs ==
  /\ pc = "idle"
  /\ \E extensionArgs \in ExtensionArgInputs, extensionName \in ExtensionNames :
       Atomic("parseExtensionArgs",
              [extensionArgs |-> extensionArgs, extensionName |-> extensionName],
              <<>>, parseExtensionArgs(<<>>, extensionArgs, extensionName))

CallParseKnownArgs ==
  /\ pc = "idle"
  /\ \E d \in ArgInputs, c \in ArgConstraintInputs :
       LET driverPluginArgs == Alloc(<<>>, d)
           argsConstraints == Alloc(driverPluginArgs.h, c)
           h0 == argsConstraints.h
           r == parseKnownArgs(h0, driverPluginArgs.v, argsConstraints.v)
       IN Atomic("parseKnownArgs",
                 [driverPluginArgs |-> driverPluginArgs.v, argsConstraints |-> argsConstraints.v],
                 h0,
                 IF r.ok THEN [h |-> Append(h0, Cell("object", r.args)),
                               ret |-> Returned(Ref(Len(h0) + 1))]
                 ELSE [h |-> h0, ret |-> Thrown(r.error)])

CallParseDriverPluginArgs ==
  /\ pc = "idle"
  /\ \E b \in BaseArgInputs, d \in ArgInputs, c \in ArgConstraintInputs,
        outcome \in ValidateOutcomes :
       LET a == Alloc(<<>>, b)
           driverPluginArgs == Alloc(a.h, d)
           argsConstraints == Alloc(driverPluginArgs.h, c)
           h0 == argsConstraints.h
       IN Atomic("parseDriverPluginArgs",
                 [args |-> a.v, driverPluginArgs |-> driverPluginArgs.v,
                  argsConstraints |-> argsConstraints.v],
                 h0,
                 parseDriverPluginArgs(h0, a.v, driverPluginArgs.v, argsConstraints.v, outcome))

CallPullSettings ==
  /\ pc = "idle"
  /\ \E d \in SettingsInputs :
       LET caps == Alloc(<<>>, d)
       IN Atomic("pullSettings", [caps |-> caps.v], caps.h, pullSettings(caps.h, caps.v))

\* Lines 95-119: the classification, the early return, the clones, and the pairs
\* the loop of line 121 is about to iterate.
CallParseCapsForInnerDriver ==
  /\ pc = "idle"
  /\ \E j \in JsonwpInputs, w \in W3CInputs, c \in ConstraintInputs, d \in DefaultInputs :
       LET a1 == Alloc(<<>>, j)
           a2 == Alloc(a1.h, w)
           a3 == Alloc(a2.h, c)
           a4 == Alloc(a3.h, d)
           h0 == a4.h
           c1 == cloneDeep(h0, a1.v)
           c2 == cloneDeep(c1.h, a2.v)
           c3 == cloneDeep(c2.h, a4.v)
       IN /\ fn' = "parseCapsForInnerDriver"
          /\ args' = [jsonwpCapabilities |-> a1.v, w3cCapabilities |-> a2.v,
                      constraints |-> a3.v, defaultCapabilities |-> a4.v]
          /\ heap0' = h0
          /\ engine' = <<>>
          /\ IF ~hasW3CCaps(h0, a2.v)
             THEN LET r == Alloc(h0, missingW3CResult)
                  IN /\ pc' = "done"
                     /\ heap' = r.h
                     /\ ret' = Returned(r.v)
                     /\ UNCHANGED <<jsonwpCapabilities, w3cCapabilities, defaultCapabilities,
                                    pairs>>
             ELSE /\ heap' = c3.h
                  /\ jsonwpCapabilities' = c1.v
                  /\ w3cCapabilities' = c2.v
                  /\ defaultCapabilities' = c3.v
                  /\ pairs' = toPairs(c3.h, c3.v)
                  /\ pc' = IF ~isEmpty(c3.h, c3.v) THEN "defaults" ELSE "finish"
                  /\ ret' = NoResult

\* Lines 121-145, one default capability: skipped, injected, or a TypeError that
\* leaves the function (the loop is outside the try of line 161).
DefaultCapIteration ==
  /\ pc = "defaults"
  /\ LET r == defaultCapIteration(heap, w3cCapabilities, Head(pairs).k, Head(pairs).v)
     IN IF ~r.ok
        THEN /\ pc' = "done"
             /\ ret' = Thrown("TypeError")
             /\ UNCHANGED <<heap, pairs>>
        ELSE /\ heap' = r.h
             /\ pairs' = Tail(pairs)
             /\ pc' = IF Tail(pairs) = <<>> THEN "finish" ELSE "defaults"
             /\ ret' = ret
  /\ UNCHANGED <<fn, heap0, args, jsonwpCapabilities, w3cCapabilities, defaultCapabilities,
                 engine>>

\* Lines 147-181: the legacy merge, the call of the engine, and the return.
MatchAndReturn ==
  /\ pc = "finish"
  /\ \E outcome \in EngineOutcomes :
       LET pj == processJsonwp(heap, jsonwpCapabilities, defaultCapabilities,
                               hasJSONWPCaps(heap, jsonwpCapabilities))
           r == matchAndReturn(pj.h, pj.v, outcome)
       IN /\ engine' = Append(engine, [caps |-> Deep(heap, w3cCapabilities),
                                       constraints |-> Deep(heap, args.constraints),
                                       strict |-> TRUE,
                                       answer |-> outcome])
          /\ heap' = r.h
          /\ ret' = Returned(r.v)
          /\ pc' = "done"
  /\ UNCHANGED <<fn, heap0, args, jsonwpCapabilities, w3cCapabilities, defaultCapabilities,
                 pairs>>

Next ==
  \/ CallParseExtensionArgs
  \/ CallParseKnownArgs
  \/ CallParseDriverPluginArgs
  \/ CallPullSettings
  \/ CallParseCapsForInnerDriver
  \/ DefaultCapIteration
  \/ MatchAndReturn

Spec == Init /\ [][Next]_vars

-----------------------------------------------------------------------------
(* Reading a finished call *)

Done(name) == pc = "done" /\ fn = name
ReturnedObject == ret.kind = "return" /\ ret.v.t = "ref"
Field(name) == GetProp(toPairs(heap, ret.v), name)
HasField(name) == HasKey(toPairs(heap, ret.v), name)
NullOrUnset(v) == v.t \in {"null", "undefined"}

\* The caller's object, as it was before the call and as it is now.
Before(v) == Deep(heap0, v)
Now(v) == Deep(heap, v)
KeysOf(d) == {d.items[i].k : i \in 1..Len(d.items)}
IsDict(d) == d.t = "obj" /\ d.kind = "object"
IsSeq(d) == d.t = "obj" /\ d.kind = "array"

-----------------------------------------------------------------------------
(* C1 *)

\* C1: at every point of a parseCapsForInnerDriver call, whether it ends in a result,
\* an error result or a raised error, the caller's legacy capabilities, W3C payload
\* (alwaysMatch and every firstMatch entry included) and default capabilities are
\* structurally what they were before the call.
C1_CallerObjectsUntouched ==
  fn = "parseCapsForInnerDriver" =>
    /\ Now(args.jsonwpCapabilities) = Before(args.jsonwpCapabilities)
    /\ Now(args.w3cCapabilities) = Before(args.w3cCapabilities)
    /\ Now(args.defaultCapabilities) = Before(args.defaultCapabilities)

\* A finished call in which a default was injected into the working payload and the
\* legacy capabilities were merged with the defaults.
C1_Witness ==
  /\ Done("parseCapsForInnerDriver")
  /\ ReturnedObject
  /\ Len(engine) = 1
  /\ engine[1].caps # Before(args.w3cCapabilities)
  /\ IsDict(Before(args.jsonwpCapabilities))
  /\ ~NullOrUnset(Field("processedJsonwpCapabilities"))
  /\ Now(Field("processedJsonwpCapabilities")) # Before(args.jsonwpCapabilities)

-----------------------------------------------------------------------------
(* C2 *)

\* C2 as stated: in a returned result with the error field set, desiredCaps is empty
\* and both processed fields are null or unset.
C2_ErrorResultHasNoProcessedCaps ==
  (Done("parseCapsForInnerDriver") /\ ReturnedObject /\ HasField("error")) =>
    /\ isEmpty(heap, Field("desiredCaps"))
    /\ NullOrUnset(Field("processedJsonwpCapabilities"))
    /\ NullOrUnset(Field("processedW3CCapabilities"))

\* C2, amended: in a returned result with the error field set, desiredCaps is empty and
\* processedW3CCapabilities is null or unset; processedJsonwpCapabilities is null or
\* unset exactly when W3C capabilities were missing or no legacy dictionary was
\* supplied, and after a matching failure with a legacy dictionary it is a dictionary
\* holding every supplied legacy capability with its value.
C2_ErrorResultKeepsLegacyCaps ==
  (Done("parseCapsForInnerDriver") /\ ReturnedObject /\ HasField("error")) =>
    /\ isEmpty(heap, Field("desiredCaps"))
    /\ NullOrUnset(Field("processedW3CCapabilities"))
    /\ NullOrUnset(Field("processedJsonwpCapabilities"))
         <=> (engine = <<>> \/ ~IsDict(Before(args.jsonwpCapabilities)))
    /\ ~NullOrUnset(Field("processedJsonwpCapabilities")) =>
         LET legacy == Before(args.jsonwpCapabilities).items
             kept == Now(Field("processedJsonwpCapabilities"))
         IN /\ IsDict(kept)
            /\ \A i \in 1..Len(legacy) : GetProp(kept.items, legacy[i].k) = legacy[i].v

\* The engine rejected the payload of a call that also carried legacy capabilities.
C2_Witness ==
  /\ Done("parseCapsForInnerDriver")
  /\ ReturnedObject
  /\ HasField("error")
  /\ Len(engine) = 1
  /\ IsDict(Before(args.jsonwpCapabilities))
  /\ Before(args.defaultCapabilities).items # <<>>

-----------------------------------------------------------------------------
(* C3 *)

\* The payload the caller passed is no plain dictionary, or has neither field.
NoUsableW3C ==
  LET w == Before(args.w3cCapabilities)
  IN ~IsDict(w) \/ ({"alwaysMatch", "firstMatch"} \cap KeysOf(w) = {})

\* C3: when w3cCaps is not a plain dictionary or has neither alwaysMatch nor
\* firstMatch, the call returns at once a result whose error is "W3C capabilities
\* should be provided" and whose protocol is W3C, and the engine is never invoked,
\* whatever the legacy capabilities, constraints and defaults are.
C3_MissingW3CIsReported ==
  (fn = "parseCapsForInnerDriver" /\ NoUsableW3C) =>
    /\ pc = "done"
    /\ ReturnedObject
    /\ Field("error") = Error("W3C capabilities should be provided")
    /\ Field("protocol") = PROTOCOLS_W3C
    /\ engine = <<>>

\* A dictionary without either field, passed with legacy capabilities and defaults.
C3_Witness ==
  /\ Done("parseCapsForInnerDriver")
  /\ IsDict(Before(args.w3cCapabilities))
  /\ Before(args.w3cCapabilities).items # <<>>
  /\ NoUsableW3C
  /\ IsDict(Before(args.jsonwpCapabilities))
  /\ Before(args.defaultCapabilities).items # <<>>
  /\ ReturnedObject
  /\ HasField("error")

-----------------------------------------------------------------------------
(* C4 *)

\* Dictionary d has a key equal to key once the appium: prefix is stripped from both.
EquivalentIn(d, key) ==
  IsDict(d) /\ \E k \in KeysOf(d) : removeAppiumPrefix(k) = removeAppiumPrefix(key)

FirstMatchOf(payload) == GetProp(payload.items, "firstMatch")
AlwaysMatchOf(payload) == GetProp(payload.items, "alwaysMatch")

\* firstMatch[0] of payload is a dictionary that maps key to value.
InjectedInFirst(payload, key, value) ==
  LET fm == FirstMatchOf(payload)
  IN /\ IsSeq(fm)
     /\ fm.items # <<>>
     /\ IsDict(fm.items[1])
     /\ GetProp(fm.items[1].items, key) = value

-----------------------------------------------------------------------------
(* C5 *)

\* Dictionary prefixed is dictionary caps with appium: put before every key that is
\* neither a standard capability name nor already holds a colon.
IsPrefixedForm(prefixed, caps) ==
  /\ IsDict(prefixed)
  /\ Len(prefixed.items) = Len(caps.items)
  /\ \A i \in 1..Len(caps.items) :
       LET k == caps.items[i].k
       IN IF k \in STANDARD_CAPS \/ \E j \in 1..Len(k) : SubSeq(k, j, j) = ":"
          THEN GetProp(prefixed.items, k) = caps.items[i].v
          ELSE GetProp(prefixed.items, "appium:" \o k) = caps.items[i].v

\* C5: a result returned without the error field has protocol W3C, desiredCaps equal to
\* what the engine answered on its single call, made in strict mode with the
\* default-augmented payload and the caller's constraints,
\* processedW3CCapabilities.firstMatch equal to [{}] and
\* processedW3CCapabilities.alwaysMatch equal to desiredCaps with prefixes inserted.
C5_SuccessResultShape ==
  (Done("parseCapsForInnerDriver") /\ ReturnedObject /\ ~HasField("error")) =>
    /\ Field("protocol") = PROTOCOLS_W3C
    /\ Len(engine) = 1
    /\ engine[1].answer.ok
    /\ engine[1].strict
    /\ engine[1].caps = Deep(heap, w3cCapabilities)
    /\ engine[1].constraints = Before(args.constraints)
    /\ Now(Field("desiredCaps")) = engine[1].answer.caps
    /\ LET processed == Now(Field("processedW3CCapabilities"))
       IN /\ IsDict(processed)
          /\ KeysOf(processed) = {"alwaysMatch", "firstMatch"}
          /\ GetProp(processed.items, "firstMatch") = Arr(<<Obj(<<>>)>>)
          /\ IsPrefixedForm(GetProp(processed.items, "alwaysMatch"),
                            Now(Field("desiredCaps")))

\* A success whose matched capabilities hold a standard name and a name to prefix.
C5_Witness ==
  /\ Done("parseCapsForInnerDriver")
  /\ ReturnedObject
  /\ ~HasField("error")
  /\ KeysOf(Now(Field("desiredCaps"))) = {"platformName", "deviceName"}
  /\ KeysOf(GetProp(Now(Field("processedW3CCapabilities")).items, "alwaysMatch"))
       = {"platformName", "appium:deviceName"}
  /\ engine[1].caps # Before(args.w3cCapabilities)

-----------------------------------------------------------------------------
(* C10 *)

\* C10 as stated: a parseCapsForInnerDriver call never raises; it ends by returning a
\* result object.
C10_NeverRaises ==
  fn = "parseCapsForInnerDriver" => ret.kind # "throw"

-----------------------------------------------------------------------------
(* C6 *)

\* C6 as stated: for a text whose parsed mapping has no entry for the extension the
\* call returns an empty mapping, and the plain-objects error is raised only when an
\* entry exists and is no plain dictionary.
C6_MissingEntryYieldsEmptyMapping ==
  (Done("parseExtensionArgs") /\ isString(args.extensionArgs)
     /\ parseJsonStringOrFile(args.extensionArgs.s).ok) =>
    LET parsed == parseJsonStringOrFile(args.extensionArgs.s).d
        entry == GetProp(parsed.items, args.extensionName)
    IN /\ args.extensionName \notin KeysOf(parsed) =>
            (ret.kind = "return" /\ Now(ret.v) = Obj(<<>>))
       /\ ret.kind = "throw" =>
            (args.extensionName \in KeysOf(parsed) /\ ~IsDict(entry))

-----------------------------------------------------------------------------
(* C7 *)

\* C7 as stated: after a parseDriverPluginArgs call the caller's baseArgs object holds
\* the keys and values it held before the call.
C7_BaseArgsUntouched ==
  Done("parseDriverPluginArgs") => Now(args.args) = Before(args.args)

-----------------------------------------------------------------------------
(* C8 *)

\* C8: parseKnownArgs throws, and leaves no mapping behind, when some key of the
\* supplied arguments is no key of the constraints; otherwise it returns a mapping with
\* the keys and values of the supplied arguments.
C8_KnownArgsFailClosed ==
  Done("parseKnownArgs") =>
    LET supplied == Before(args.driverPluginArgs)
        known == KeysOf(Before(args.argsConstraints))
    IN IF \E k \in KeysOf(supplied) : k \notin known
       THEN ret.kind = "throw" /\ heap = heap0
       ELSE ret.kind = "return" /\ Now(ret.v) = supplied

\* A known argument followed by an unknown one: the call throws.
C8_Witness ==
  /\ Done("parseKnownArgs")
  /\ Len(Before(args.driverPluginArgs).items) = 2
  /\ Before(args.driverPluginArgs).items[1].k \in KeysOf(Before(args.argsConstraints))
  /\ Before(args.driverPluginArgs).items[2].k \notin KeysOf(Before(args.argsConstraints))
  /\ ret.kind = "throw"

-----------------------------------------------------------------------------
(* C9 *)

\* key[i..] is settings[<name>] with a name of one or more non-whitespace characters,
\* and it ends the key.
EndsWithSettingAt(key, i) ==
  /\ i >= 1
  /\ i + 10 <= Len(key)
  /\ SubSeq(key, i, i + 8) = "settings["
  /\ SubSeq(key, Len(key), Len(key)) = "]"
  /\ \A j \in (i + 9)..(Len(key) - 1) : SubSeq(key, j, j) \notin {" ", "\t", "\n", "\r", "\f"}

SettingNameAt(key, i) == SubSeq(key, i + 9, Len(key) - 1)

\* C9 as stated: of a non-empty dictionary, every key that ends with settings[<name>]
\* is deleted and its value is in the result under <name>; every other key stays with
\* its value; afterwards no key of the dictionary ends with settings[<name>].
C9_EveryKeyEndingWithSettingIsPulled ==
  (Done("pullSettings") /\ IsDict(Before(args.caps)) /\ Before(args.caps).items # <<>>) =>
    LET given == Before(args.caps).items
        left == Now(args.caps).items
        result == Now(ret.v).items
    IN /\ \A n \in 1..Len(given) :
            LET key == given[n].k
                starts == {i \in 1..Len(key) : EndsWithSettingAt(key, i)}
            IN IF starts # {}
               THEN /\ ~HasKey(left, key)
                    /\ \E i \in starts : GetProp(result, SettingNameAt(key, i)) = given[n].v
               ELSE GetProp(left, key) = given[n].v
       /\ \A n \in 1..Len(left) :
            \A i \in 1..Len(left[n].k) : ~EndsWithSettingAt(left[n].k, i)

\* The places of key where settings[<name>] ends the key and starts at a word
\* boundary: the start of the key, or after a character that is no letter, digit or
\* underscore.
SettingStarts(key) ==
  {i \in 1..Len(key) :
     EndsWithSettingAt(key, i) /\ (i = 1 \/ SubSeq(key, i - 1, i - 1) \notin WordChars)}

SettingName(key) ==
  SettingNameAt(key, CHOOSE i \in SettingStarts(key) : \A j \in SettingStarts(key) : i <= j)

\* C9, amended: of a non-empty dictionary, every key in which settings[<name>] ends the
\* key and starts at a word boundary is deleted, and the result maps <name> (taken from
\* the leftmost such place) to the value of the LAST such key of the dictionary that
\* yields this name; every other key stays with its value; the result holds no other
\* key; afterwards no key of the dictionary has that form.
C9_KeysWithSettingAtWordBoundaryArePulled ==
  (Done("pullSettings") /\ IsDict(Before(args.caps)) /\ Before(args.caps).items # <<>>) =>
    LET given == Before(args.caps).items
        left == Now(args.caps).items
        result == Now(ret.v).items
        pulled == {n \in 1..Len(given) : SettingStarts(given[n].k) # {}}
    IN /\ ret.kind = "return"
       /\ \A n \in 1..Len(given) :
            IF n \in pulled
            THEN /\ ~HasKey(left, given[n].k)
                 /\ LET same == {m \in pulled :
                                   SettingName(given[m].k) = SettingName(given[n].k)}
                        last == CHOOSE m \in same : \A x \in same : x <= m
                    IN GetProp(result, SettingName(given[n].k)) = given[last].v
            ELSE GetProp(left, given[n].k) = given[n].v
       /\ Len(left) = Len(given) - Cardinality(pulled)
       /\ {result[i].k : i \in 1..Len(result)} = {SettingName(given[n].k) : n \in pulled}
       /\ \A n \in 1..Len(left) : SettingStarts(left[n].k) = {}

\* A dictionary with a key where settings[timeout] follows a letter and a key where
\* it starts the key: the first stays, the second is pulled.
C9_Witness ==
  /\ Done("pullSettings")
  /\ IsDict(Before(args.caps))
  /\ KeysOf(Before(args.caps)) = {"mysettings[timeout]", "settings[timeout]"}
  /\ KeysOf(Now(args.caps)) = {"mysettings[timeout]"}
  /\ Now(ret.v) = Obj(<<P("timeout", Num(30))>>)

====
